---- MODULE Spec2Model ----
(***************************************************************************)
(* A model of dolthub/collation-extractor: the code point iterator         *)
(* (utils/utf8_iterator.go), the encoding trie and its iterator            *)
(* (utils/character_set_encoding_tree.go), the range map constructor and   *)
(* the range map codec (range_map_constructor.go, range_map.go) and the    *)
(* rune comparator with its range compressor (utils/rune_comparator.go).   *)
(*                                                                         *)
(* Each component has its own specification (SpecIter, SpecTrie,           *)
(* SpecRange, SpecCatalog, SpecCompress).  All of them share one Init:     *)
(* every object is in the state its constructor leaves it in.              *)
(***************************************************************************)
EXTENDS Integers, Sequences, FiniteSets, TLC

VARIABLES
    iter,        \* UTF8Iter: [r, count, limit]
    iterRes,     \* result of the last UTF8Iter.Next call: [called, r, found]
    iterPrev,    \* the value yielded by the last successful Next before iterRes (-1: none)
    iterEnded,   \* TRUE once a Next call before the last one has returned found=false
    fresh,       \* since the last Reset: a newly constructed iterator given the same Next calls
    tree,        \* CharacterSetEncodingTree: path from the root -> [data, nodes, min, max]
    trieCall,    \* the last AddChild/SetData call: [op, path, arg, ret, before]
    setOk,       \* path -> the data of every SetData call on that node that returned true
    csei,        \* CharacterSetEncodingIterator: [trees, progress, depth] (NoCsei: none made)
    cseiOut,     \* the <<inputEncoding, outputEncoding>> pairs Next has returned, in order
    cseiRes,     \* the last CharacterSetEncodingIterator.Next call: [called, ok, ended]
    heap,        \* the rangeBounds slices: heap[id] is a sequence of <<min, max>>
    rc,          \* RangeMapConstructor: [inputEnc, outputEnc], sequences of slice ids
    rm,          \* the RangeMap returned by Map(): [inputEntries, outputEntries] (NoRangeMap: none)
    added,       \* the <<input, output>> pairs given to AddValidEncoding, in order
    codec,       \* the results of the Decode and Encode calls made on rm
    consolidated, \* what consolidateRanges did: the pairs merged into each range, the passes
    firstMap,    \* the first RangeMap that Map() returned, and the ranges as they were then
    values,      \* RuneComparator.values: the rows, row index = weight
    comparator,  \* RuneComparator.comparator: <<l, r>> -> -1, 0 or 1 (NoComparator: nil)
    inserted,    \* the runes given to Insert, in order
    panicked,    \* TRUE once a call has panicked
    charset,     \* the runes the extraction loop finds valid in the character set
    goFile       \* what RuneComparatorToGoFile wrote: [static, dynamic] (NoGoFile: not called)

iterVars == <<iter, iterRes, iterPrev, iterEnded, fresh>>
trieVars == <<tree, trieCall, setOk, csei, cseiOut, cseiRes>>
rangeVars == <<heap, rc, rm, added, codec, consolidated, firstMap>>
catVars == <<values, comparator, inserted, panicked, charset, goFile>>
vars == <<iter, iterRes, iterPrev, iterEnded, fresh, tree, trieCall, setOk, csei, cseiOut, cseiRes,
          heap, rc, rm, added, codec, consolidated, firstMap, values, comparator, inserted, panicked, charset, goFile>>

Nil == "nil"

Min(a, b) == IF a < b THEN a ELSE b
Max(a, b) == IF a > b THEN a ELSE b
Range(f) == {f[i] : i \in DOMAIN f}

(***************************************************************************)
(* UTF8Iter                                                                *)
(***************************************************************************)
MaxRune == 1114111             \* utf8.MaxRune, 0x10FFFF
MaxInt32 == 2147483647         \* math.MaxInt32
utf8SurrogateMin == 55296      \* 0xD800
utf8SurrogateMax == 57343      \* 0xDFFF

NewUTF8Iter == [r |-> 0, count |-> 0, limit |-> MaxInt32]

\* Reset has not been called, or SetIteratorLimit was called after it.
NoFresh == [since |-> FALSE, iter |-> NewUTF8Iter,
            res |-> [called |-> FALSE, r |-> 0, found |-> FALSE]]

IterInit == /\ iter = NewUTF8Iter
            /\ iterRes = [called |-> FALSE, r |-> 0, found |-> FALSE]
            /\ iterPrev = -1
            /\ iterEnded = FALSE
            /\ fresh = NoFresh

\* The iterator after one call of Next, and what the call returns.
UTF8IterSkip(r) == IF utf8SurrogateMin <= r /\ r <= utf8SurrogateMax
                   THEN utf8SurrogateMax + 1
                   ELSE r

UTF8IterExhausted_LimitPassed(it) == it.count > it.limit \/ it.r > MaxRune

UTF8IterExhausted(it) == it.count >= it.limit \/ it.r > MaxRune

UTF8IterYield_OffByOne(it) == UTF8IterSkip(it.r) + 1

UTF8IterYield(it) == UTF8IterSkip(it.r) + 1 - 1

\* Next as a function: the iterator it leaves and what it returns.
UTF8IterAfter(it) ==
    IF UTF8IterExhausted(it) THEN it
    ELSE [it EXCEPT !.r = UTF8IterSkip(it.r) + 1, !.count = it.count + 1]

UTF8IterResult(it) ==
    IF UTF8IterExhausted(it) THEN [called |-> TRUE, r |-> 0, found |-> FALSE]
    ELSE [called |-> TRUE, r |-> UTF8IterYield(it), found |-> TRUE]

UTF8IterNext ==
    /\ IF UTF8IterExhausted(iter)
       THEN /\ iterRes' = [called |-> TRUE, r |-> 0, found |-> FALSE]
            /\ UNCHANGED iter
       ELSE /\ iter' = [iter EXCEPT !.r = UTF8IterSkip(iter.r) + 1,
                                    !.count = iter.count + 1]
            /\ iterRes' = [called |-> TRUE, r |-> UTF8IterYield(iter), found |-> TRUE]
    /\ iterPrev' = IF iterRes.found THEN iterRes.r ELSE iterPrev
    /\ iterEnded' = (iterEnded \/ (iterRes.called /\ ~iterRes.found))
    /\ fresh' = IF fresh.since
                THEN [fresh EXCEPT !.iter = UTF8IterAfter(@), !.res = UTF8IterResult(fresh.iter)]
                ELSE fresh

SetIteratorLimit(limit) ==
    /\ iter' = [iter EXCEPT !.limit = limit]
    /\ fresh' = NoFresh
    /\ UNCHANGED <<iterRes, iterPrev, iterEnded>>

Reset ==
    /\ iter' = [iter EXCEPT !.r = 0, !.count = 0]
    /\ fresh' = [NoFresh EXCEPT !.since = TRUE]
    /\ UNCHANGED <<iterRes, iterPrev, iterEnded>>

(***************************************************************************)
(* CharacterSetEncodingTree                                                *)
(***************************************************************************)
MaxNodes == 3      \* AddChild creates at most this many nodes (calls observed)
MaxIterNodes == 4  \* AddChild creates at most this many nodes (tree enumerated)
MaxEncodingLen == 4   \* "Largest encoding is 4 bytes deep"

\* The byte values used as trie keys (with a gap, so that a node's min..max
\* holds a value that is no key) and the data given to SetData.
TrieBytes == {0, 2}
TrieData == {<<65>>, <<66>>}

\* NewCharacterSetEncodingTree, and the child AddChild creates: no data, no
\* subtrees, min and max at their zero value.
\* No iterator has been made yet (an iterator always holds one tree at least).
NoCsei == [trees |-> <<>>, progress |-> <<>>, depth |-> 0]

NewCharacterSetEncodingTree == [data |-> Nil, nodes |-> {}, min |-> 0, max |-> 0]

\* A node is named by the bytes that lead to it from the root; nodes[val] of
\* the node at path p is the node at Append(p, val).
ChildPath(p, val) == Append(p, val)

\* The min and max bookkeeping of AddChild.
AddChildMin_FirstOnly(n, val) == IF n.nodes = {} THEN val ELSE n.min

AddChildMin(n, val) == IF n.nodes = {} THEN val
                       ELSE IF val < n.min THEN val ELSE n.min

AddChildMax(n, val) == IF n.nodes = {} THEN val
                       ELSE IF val < n.min THEN n.max
                       ELSE IF val > n.max THEN val ELSE n.max

\* AddChild: the tree it leaves behind (the returned subtree is ChildPath(p, val)).
AddChildTree(p, val) ==
    LET n == tree[p]
        c == ChildPath(p, val)
        n2 == [n EXCEPT !.min = AddChildMin(n, val),
                        !.max = AddChildMax(n, val),
                        !.nodes = n.nodes \cup {val}]
    IN  [q \in DOMAIN tree \cup {c} |->
            IF q = p THEN n2
            ELSE IF q \in DOMAIN tree THEN tree[q]
            ELSE NewCharacterSetEncodingTree]

AddChild(p, val, nodeLimit) ==
    /\ csei = NoCsei
    /\ val \in tree[p].nodes \/ Cardinality(DOMAIN tree) <= nodeLimit
    /\ tree' = AddChildTree(p, val)
    /\ setOk' = [q \in DOMAIN tree' |-> IF q \in DOMAIN setOk THEN setOk[q] ELSE <<>>]
    /\ UNCHANGED <<csei, cseiOut, cseiRes>>

\* SetData refuses a node that has subtrees or already has data.
SetDataAllowed_IgnoresSubtrees(n) == n.data = Nil

SetDataAllowed(n) == ~(Cardinality(n.nodes) > 0 \/ n.data # Nil)

SetData(p, data) ==
    /\ csei = NoCsei
    /\ tree' = IF SetDataAllowed(tree[p]) THEN [tree EXCEPT ![p].data = data] ELSE tree
    /\ setOk' = IF SetDataAllowed(tree[p])
                THEN [setOk EXCEPT ![p] = Append(@, data)]
                ELSE setOk
    /\ UNCHANGED <<csei, cseiOut, cseiRes>>

\* What the caller of AddChild and of SetData sees: the call, the node as it
\* was before the call, and the value the call returned.
AddChildCall(p, val) ==
    /\ AddChild(p, val, MaxNodes)
    /\ trieCall' = [op |-> "AddChild", path |-> p, arg |-> val,
                    ret |-> ChildPath(p, val), before |-> tree[p]]

SetDataCall(p, data) ==
    /\ SetData(p, data)
    /\ trieCall' = [op |-> "SetData", path |-> p, arg |-> data,
                    ret |-> SetDataAllowed(tree[p]), before |-> tree[p]]

(***************************************************************************)
(* CharacterSetEncodingIterator                                            *)
(***************************************************************************)
\* Iterator() on the root of the tree.
Iterator ==
    /\ csei = NoCsei
    /\ csei' = [trees |-> << <<>> >>, progress |-> <<tree[<<>>].min>>, depth |-> 0]
    /\ UNCHANGED <<tree, trieCall, setOk, cseiOut, cseiRes>>

\* The path of the subtree the iterator stands on: progress of every level.
CseiInput(it) == [i \in 1..Len(it.progress) |-> it.progress[i] % 256]

\* Whether Next returns the subtree it found at level = depth.
CseiIsLeaf_DataOnly(sub) == sub.data # Nil

CseiIsLeaf(sub) == sub.data # Nil /\ Cardinality(sub.nodes) = 0

\* The loop of Next: runs until a return, and gives the iterator it leaves
\* behind with the three returned values.
RECURSIVE CseiLoop(_)
CseiLoop(it) ==
    IF it.depth >= MaxEncodingLen
    THEN [it |-> it, inputEncoding |-> Nil, outputEncoding |-> Nil, ok |-> FALSE]
    ELSE
    LET depth == it.depth
        level == Len(it.trees) - 1
        path == it.trees[level + 1]
        t == tree[path]
        progress == it.progress[level + 1]
        bump == [it EXCEPT !.progress[level + 1] = @ + 1]
    IN  IF progress > t.max
        THEN IF level = 0
             THEN CseiLoop([it EXCEPT !.depth = @ + 1, !.progress[1] = t.min])
             ELSE CseiLoop([it EXCEPT
                        !.trees = SubSeq(@, 1, level),
                        !.progress = [SubSeq(@, 1, level) EXCEPT ![level] = @ + 1]])
        ELSE IF (progress % 256) \notin t.nodes
        THEN CseiLoop(bump)
        ELSE LET sub == ChildPath(path, progress % 256)
             IN  IF level = depth
                 THEN IF CseiIsLeaf(tree[sub])
                      THEN [it |-> bump, inputEncoding |-> CseiInput(it),
                            outputEncoding |-> tree[sub].data, ok |-> TRUE]
                      ELSE CseiLoop(bump)
                 ELSE IF Cardinality(tree[sub].nodes) = 0
                      THEN CseiLoop(bump)
                      ELSE CseiLoop([it EXCEPT
                                !.trees = Append(@, sub),
                                !.progress = Append(@, tree[sub].min)])

CseiNext ==
    /\ csei # NoCsei
    /\ LET res == CseiLoop(csei)
       IN  /\ csei' = res.it
           /\ cseiOut' = IF res.ok
                         THEN Append(cseiOut, <<res.inputEncoding, res.outputEncoding>>)
                         ELSE cseiOut
           /\ cseiRes' = [called |-> TRUE, ok |-> res.ok,
                          ended |-> cseiRes.ended \/ ~res.ok]
    /\ UNCHANGED <<tree, trieCall, setOk>>

TrieInit == /\ tree = (<<>> :> NewCharacterSetEncodingTree)
            /\ trieCall = [op |-> "none"]
            /\ setOk = (<<>> :> <<>>)
            /\ csei = NoCsei
            /\ cseiOut = <<>>
            /\ cseiRes = [called |-> FALSE, ok |-> FALSE, ended |-> FALSE]

(***************************************************************************)
(* RangeMapConstructor and rangeBounds                                     *)
(***************************************************************************)
MaxPairs == 3          \* AddValidEncoding is called at most this many times
InputBytes == {0, 1}         \* the byte values of the input encodings
OutputBytes == {0, 1, 255}   \* the byte values of the output encodings
RangeLens == {1, 2}          \* the lengths of the encodings

\* The byte sequences of the given lengths over the given byte values.
ByteSeqs(bytes, lens) == UNION {[1..n -> bytes] : n \in lens}

\* byte arithmetic
ByteOf(n) == n % 256

NewRangeMapConstructor == [inputEnc |-> <<>>, outputEnc |-> <<>>]

\* The degenerate range of one codepoint: every section is [val, val].
NewRange(codepoint) == [i \in 1..Len(codepoint) |-> <<codepoint[i], codepoint[i]>>]

boundsContains(l, r) == l[1] <= r[1] /\ l[2] >= r[2]

boundsAdjacent_NoWrapGuard(l, r) ==
    ByteOf(l[2] + 1) = r[1] \/ ByteOf(r[2] + 1) = l[1]

boundsAdjacent(l, r) ==
    \/ ByteOf(l[2] + 1) = r[1] /\ l[2] # 255
    \/ ByteOf(r[2] + 1) = l[1] /\ r[2] # 255

boundsMinMax(l, r) == <<IF r[1] < l[1] THEN r[1] ELSE l[1],
                        IF r[2] > l[2] THEN r[2] ELSE l[2]>>

\* contains assumes that the data is as long as the range bounds.
contains(r, data) ==
    \A i \in 1..Len(r) : ~(r[i][1] > data[i] \/ r[i][2] < data[i])

\* The loop of differences, from section sectionIdx on.
RECURSIVE differencesFrom(_, _, _, _)
differencesFrom(r, other, sectionIdx, n) ==
    IF sectionIdx > Len(r) THEN n
    ELSE IF ~boundsContains(r[sectionIdx], other[sectionIdx])
         THEN IF boundsAdjacent(r[sectionIdx], other[sectionIdx])
              THEN differencesFrom(r, other, sectionIdx + 1, n + 1)
              ELSE 2
         ELSE differencesFrom(r, other, sectionIdx + 1, n)

differences(r, other) ==
    IF Len(r) # Len(other) THEN 2 ELSE differencesFrom(r, other, 1, 0)

\* merge writes into the slice r itself; this is its new content.
merge(r, other) == [i \in 1..Len(r) |-> boundsMinMax(r[i], other[i])]

\* Whether consolidateRanges merges the current range pair into the last kept one.
Mergeable_ContainedOnly(h, lastIn, lastOut, curIn, curOut) ==
    /\ differences(h[lastIn], h[curIn]) <= 0
    /\ differences(h[lastOut], h[curOut]) <= 0

Mergeable(h, lastIn, lastOut, curIn, curOut) ==
    /\ differences(h[lastIn], h[curIn]) <= 1
    /\ differences(h[lastOut], h[curOut]) <= 1

\* One pass of consolidateRanges over inputEnc/outputEnc from rangeIdx on. st
\* holds the slices (h), the new range lists and whether a merge happened; and,
\* for the record, the ranges merged into each input range (members), the
\* merges made in this pass, and every comparison of the pass (steps): the
\* bounds compared, whether they were merged, and the bounds of the last kept
\* pair after it.
RECURSIVE consolidatePass(_, _, _, _)
consolidatePass(inEnc, outEnc, rangeIdx, st) ==
    IF rangeIdx > Len(inEnc) THEN st
    ELSE
    LET curIn == inEnc[rangeIdx]
        curOut == outEnc[rangeIdx]
    IN  IF Len(st.newIn) = 0
        THEN consolidatePass(inEnc, outEnc, rangeIdx + 1,
                 [st EXCEPT !.newIn = Append(@, curIn), !.newOut = Append(@, curOut)])
        ELSE
        LET lastIn == st.newIn[Len(st.newIn)]
            lastOut == st.newOut[Len(st.newOut)]
            merged == [st EXCEPT
                          !.h = [@ EXCEPT ![lastIn] = merge(st.h[lastIn], st.h[curIn]),
                                          ![lastOut] = merge(st.h[lastOut], st.h[curOut])],
                          !.loop = TRUE,
                          !.members[lastIn] = @ \cup st.members[curIn],
                          !.merges = @ + 1]
            kept == [st EXCEPT !.newIn = Append(@, curIn), !.newOut = Append(@, curOut)]
            next == IF Mergeable(st.h, lastIn, lastOut, curIn, curOut) THEN merged ELSE kept
            step == [lastIn |-> st.h[lastIn], lastOut |-> st.h[lastOut],
                     curIn |-> st.h[curIn], curOut |-> st.h[curOut],
                     merged |-> next.loop /\ next.merges > st.merges,
                     thenIn |-> next.h[next.newIn[Len(next.newIn)]],
                     thenOut |-> next.h[next.newOut[Len(next.newOut)]]]
        IN  consolidatePass(inEnc, outEnc, rangeIdx + 1,
                            [next EXCEPT !.steps = Append(@, step)])

\* The loop of consolidateRanges: passes until one makes no merge.  Gives the
\* slices and the constructor's two lists as the call leaves them, and the
\* record of the passes: the ranges before and after each, and its merges.
RECURSIVE consolidateLoop(_, _, _, _, _)
consolidateLoop(h, inEnc, outEnc, members, passes) ==
    LET st == consolidatePass(inEnc, outEnc, 1,
                  [h |-> h, newIn |-> <<>>, newOut |-> <<>>, loop |-> FALSE,
                   members |-> members, merges |-> 0, steps |-> <<>>])
        pass == [before |-> Len(inEnc), after |-> Len(st.newIn), merges |-> st.merges,
                 loop |-> st.loop, steps |-> st.steps]
    IN  IF st.loop
        THEN consolidateLoop(st.h, st.newIn, st.newOut, st.members, Append(passes, pass))
        ELSE [h |-> st.h, inputEnc |-> st.newIn, outputEnc |-> st.newOut,
              members |-> st.members, passes |-> Append(passes, pass)]

consolidateRanges_OnePass(h, inEnc, outEnc) ==
    LET st == consolidatePass(inEnc, outEnc, 1,
                  [h |-> h, newIn |-> <<>>, newOut |-> <<>>, loop |-> FALSE,
                   members |-> [id \in 1..Len(h) |-> {id}], merges |-> 0, steps |-> <<>>])
    IN  [h |-> st.h, inputEnc |-> st.newIn, outputEnc |-> st.newOut, members |-> st.members,
         passes |-> <<[before |-> Len(inEnc), after |-> Len(st.newIn), merges |-> st.merges,
                       loop |-> st.loop, steps |-> st.steps]>>]

consolidateRanges(h, inEnc, outEnc) ==
    consolidateLoop(h, inEnc, outEnc, [id \in 1..Len(h) |-> {id}], <<>>)

\* The multipliers of a range: 1 for the last section, and for every other
\* section the product of the number of values of the sections after it.
RECURSIVE multsFrom(_, _, _, _)
multsFrom(range, i, mult, acc) ==
    IF i < 1 THEN acc
    ELSE multsFrom(range, i - 1, mult * ((range[i][2] - range[i][1]) + 1),
                   [acc EXCEPT ![i] = mult])

Mults_AllOnes(range) == [i \in 1..Len(range) |-> 1]

Mults(range) == multsFrom(range, Len(range), 1, [i \in 1..Len(range) |-> 0])

(***************************************************************************)
(* RangeMap                                                                *)
(***************************************************************************)
\* No RangeMap has been built yet.
NoRangeMap == [inputEntries |-> <<>>, outputEntries |-> <<>>]

\* The entries Map() appends for the consolidated ranges, bucketed by length.
RECURSIVE mapEntries(_, _, _, _, _)
mapEntries(h, inEnc, outEnc, rangeIdx, m) ==
    IF rangeIdx > Len(inEnc) THEN m
    ELSE
    LET inputRange == inEnc[rangeIdx]
        outputRange == outEnc[rangeIdx]
        entry == [inputRange |-> inputRange,
                  outputRange |-> outputRange,
                  inputMults |-> Mults(h[inputRange]),
                  outputMults |-> Mults(h[outputRange])]
        step1 == [m EXCEPT !.inputEntries[Len(h[inputRange])] = Append(@, entry)]
        step2 == [step1 EXCEPT !.outputEntries[Len(h[outputRange])] = Append(@, entry)]
    IN  mapEntries(h, inEnc, outEnc, rangeIdx + 1, step2)

EmptyRangeMap == [inputEntries |-> [i \in 1..MaxEncodingLen |-> <<>>],
                  outputEntries |-> [i \in 1..MaxEncodingLen |-> <<>>]]

\* The index of data in the range from (mixed radix), and the bytes of an index.
RECURSIVE increaseOf(_, _, _, _)
increaseOf(data, from, mults, i) ==
    IF i < 1 THEN 0
    ELSE ByteOf(data[i] - from[i][1]) * mults[i] + increaseOf(data, from, mults, i - 1)

RECURSIVE convertFrom(_, _, _, _)
convertFrom(increase, to, mults, i) ==
    IF i > Len(to) THEN <<>>
    ELSE LET diff == increase \div mults[i]
         IN  <<ByteOf(to[i][1] + ByteOf(diff))>> \o
             convertFrom(increase - diff * mults[i], to, mults, i + 1)

\* The scan of Decode over the entries of one bucket.
RECURSIVE decodeScan(_, _, _, _)
decodeScan(h, entries, k, data) ==
    IF k > Len(entries) THEN [out |-> <<>>, ok |-> FALSE, panic |-> FALSE]
    ELSE LET entry == entries[k]
         IN  IF contains(h[entry.inputRange], data)
             THEN [out |-> convertFrom(increaseOf(data, h[entry.inputRange],
                                                   entry.inputMults, Len(data)),
                                       h[entry.outputRange], entry.outputMults, 1),
                   ok |-> TRUE, panic |-> FALSE]
             ELSE decodeScan(h, entries, k + 1, data)

RECURSIVE encodeScan(_, _, _, _)
encodeScan(h, entries, k, data) ==
    IF k > Len(entries) THEN [out |-> <<>>, ok |-> FALSE, panic |-> FALSE]
    ELSE LET entry == entries[k]
         IN  IF contains(h[entry.outputRange], data)
             THEN [out |-> convertFrom(increaseOf(data, h[entry.outputRange],
                                                   entry.outputMults, Len(data)),
                                       h[entry.inputRange], entry.inputMults, 1),
                   ok |-> TRUE, panic |-> FALSE]
             ELSE encodeScan(h, entries, k + 1, data)

\* Decode and Encode.  entries[len(data)-1] of the empty data is an index out
\* of range: the call panics.
Decode(h, m, data) ==
    IF Len(data) > Len(m.inputEntries) THEN [out |-> <<>>, ok |-> FALSE, panic |-> FALSE]
    ELSE IF Len(data) = 0 THEN [out |-> <<>>, ok |-> FALSE, panic |-> TRUE]
    ELSE decodeScan(h, m.inputEntries[Len(data)], 1, data)

Encode(h, m, data) ==
    IF Len(data) > Len(m.outputEntries) THEN [out |-> <<>>, ok |-> FALSE, panic |-> FALSE]
    ELSE IF Len(data) = 0 THEN [out |-> <<>>, ok |-> FALSE, panic |-> TRUE]
    ELSE encodeScan(h, m.outputEntries[Len(data)], 1, data)

(***************************************************************************)
(* The calls made on the constructor and on the map                        *)
(***************************************************************************)
\* The order in which CharacterSetEncodingIterator returns its input encodings.
IterOrderLess(a, b) ==
    \/ Len(a) < Len(b)
    \/ /\ Len(a) = Len(b)
       /\ \E i \in 1..Len(a) : a[i] < b[i] /\ \A j \in 1..(i - 1) : a[j] = b[j]

\* Whether a pair can be the next one of an iterator over a character set: the
\* input comes after every input given before, and no output is given twice.
NextPair(inputCodepoint, outputCodepoint) ==
    /\ Len(added) > 0 => IterOrderLess(added[Len(added)][1], inputCodepoint)
    /\ \A k \in 1..Len(added) : added[k][2] # outputCodepoint

\* No RangeMap has been returned yet.
NoFirstMap == [returned |-> FALSE, rm |-> NoRangeMap, h |-> <<>>, pairs |-> 0]

AddValidEncoding(inputCodepoint, outputCodepoint) ==
    /\ IF Len(inputCodepoint) = 0
       THEN UNCHANGED <<heap, rc>>
       ELSE /\ heap' = heap \o <<NewRange(inputCodepoint), NewRange(outputCodepoint)>>
            /\ rc' = [inputEnc |-> Append(rc.inputEnc, Len(heap) + 1),
                      outputEnc |-> Append(rc.outputEnc, Len(heap) + 2)]
    /\ added' = Append(added, <<inputCodepoint, outputCodepoint>>)
    /\ UNCHANGED <<rm, codec, consolidated, firstMap>>

Map ==
    /\ LET c == consolidateRanges(heap, rc.inputEnc, rc.outputEnc)
       IN  /\ heap' = c.h
           /\ rc' = [inputEnc |-> c.inputEnc, outputEnc |-> c.outputEnc]
           /\ rm' = mapEntries(c.h, c.inputEnc, c.outputEnc, 1, EmptyRangeMap)
           /\ consolidated' = [members |-> c.members, passes |-> c.passes]
           /\ firstMap' = IF firstMap = NoFirstMap
                           THEN [returned |-> TRUE, rm |-> rm', h |-> c.h, pairs |-> Len(added)]
                           ELSE firstMap
    /\ UNCHANGED <<added, codec>>

\* The byte sequences Decode and Encode are called with: the empty one, every
\* sequence of the lengths and byte values of the encodings, and one that is
\* longer than the largest encoding.
Probes ==
    ByteSeqs(InputBytes \cup OutputBytes, RangeLens \cup {0})
        \cup {[i \in 1..(MaxEncodingLen + 1) |-> 0]}

\* Decode and Encode called on the map with every probe, one call each.
CodecCalls ==
    /\ rm # NoRangeMap
    /\ codec = <<>>
    /\ codec' = [decode |-> [data \in Probes |-> Decode(heap, rm, data)],
                 encode |-> [data \in Probes |-> Encode(heap, rm, data)]]
    /\ UNCHANGED <<heap, rc, rm, added, consolidated, firstMap>>

RangeInit == /\ heap = <<>>
             /\ rc = NewRangeMapConstructor
             /\ rm = NoRangeMap
             /\ added = <<>>
             /\ codec = <<>>
             /\ consolidated = [members |-> <<>>, passes |-> <<>>]
             /\ firstMap = NoFirstMap

(***************************************************************************)
(* RuneComparator                                                          *)
(***************************************************************************)
\* RuneComparatorToGoFile has not been called.
NoGoFile == [written |-> FALSE, passOne |-> <<>>, static |-> <<>>, dynamic |-> <<>>]

\* The nil comparator of NewRuneComparator.
NoComparator == [kind |-> "nil"]

NewRuneComparator == [values |-> <<>>, comparator |-> NoComparator]

ThreeWay(a, b) == IF a < b THEN -1 ELSE IF a > b THEN 1 ELSE 0

\* A call of the comparator function.  The function is either given by its
\* table of results, or is the three-way comparison of the weights that the
\* server holds for the runes (bytes.Compare, STRCMP).
Compare(cmp, l, r) ==
    IF cmp.kind = "table" THEN cmp.table[<<l, r>>] ELSE ThreeWay(cmp.weight[l], cmp.weight[r])

\* Where insertNewRow is called with after the binary search ended at low.
NewRowIndex_AlwaysAfter(comp, low) == low + 1

NewRowIndex(comp, low) == IF comp = 1 THEN low + 1 ELSE low

\* mid := (high + low) / 2
Mid_Low(low, high) == low

Mid(low, high) == (high + low) \div 2

\* The binary search of Insert (rows counted from 0, as in the code): the row
\* r is appended to, or the index its new row is inserted at; and, for the
\* record, low and high at each call of the comparator (calls).
RECURSIVE InsertSearch(_, _, _, _, _)
InsertSearch(vals, cmp, r, low, high) ==
    IF high - low > 0
    THEN LET mid == Mid(low, high)
             comp == Compare(cmp, r, vals[mid + 1][1])
             call == [low |-> low, high |-> high, row |-> mid]
         IN  CASE comp = 1 -> [InsertSearch(vals, cmp, r, mid + 1, high)
                                  EXCEPT !.calls = <<call>> \o @]
               [] comp = -1 -> [InsertSearch(vals, cmp, r, low, mid)
                                   EXCEPT !.calls = <<call>> \o @]
               [] comp = 0 -> [append |-> TRUE, idx |-> mid, calls |-> <<call>>]
    ELSE LET comp == Compare(cmp, r, vals[low + 1][1])
             call == [low |-> low, high |-> high, row |-> low]
         IN  IF comp = 0
             THEN [append |-> TRUE, idx |-> low, calls |-> <<call>>]
             ELSE [append |-> FALSE, idx |-> NewRowIndex(comp, low), calls |-> <<call>>]

\* insertNewRow: a new row holding r at index idx (from 0), the rows from idx
\* on pushed back by one.
insertNewRow_NoShift(vals, r, idx) ==
    IF idx = Len(vals)
    THEN Append(vals, <<r>>)
    ELSE [vals EXCEPT ![idx + 1] = <<r>>]

insertNewRow(vals, r, idx) ==
    IF idx = Len(vals)
    THEN Append(vals, <<r>>)
    ELSE [i \in 1..(Len(vals) + 1) |->
            IF i < idx + 1 THEN vals[i]
            ELSE IF i = idx + 1 THEN <<r>>
            ELSE vals[i - 1]]

\* The rows after Insert(r), which has a comparator to call.
InsertValues_TieDropped(vals, cmp, r) ==
    IF Len(vals) = 0
    THEN <<<<r>>>>
    ELSE LET place == InsertSearch(vals, cmp, r, 0, Len(vals) - 1)
         IN  IF place.append
             THEN vals
             ELSE insertNewRow(vals, r, place.idx)

InsertValues(vals, cmp, r) ==
    IF Len(vals) = 0
    THEN <<<<r>>>>
    ELSE LET place == InsertSearch(vals, cmp, r, 0, Len(vals) - 1)
         IN  IF place.append
             THEN [vals EXCEPT ![place.idx + 1] = Append(@, r)]
             ELSE insertNewRow(vals, r, place.idx)

\* Insert.  Calling the nil comparator panics; the empty catalog takes the
\* rune without calling it.
Insert(r) ==
    /\ ~panicked
    /\ IF Len(values) > 0 /\ comparator = NoComparator
       THEN /\ panicked' = TRUE
            /\ UNCHANGED values
       ELSE /\ values' = InsertValues(values, comparator, r)
            /\ UNCHANGED panicked
    /\ inserted' = Append(inserted, r)
    /\ UNCHANGED <<comparator, charset, goFile>>

SetComparator(cmp) ==
    /\ ~panicked
    /\ comparator = NoComparator
    /\ comparator' = cmp
    /\ UNCHANGED <<values, inserted, panicked, charset, goFile>>

(***************************************************************************)
(* The comparator of TestExtractCollation                                  *)
(***************************************************************************)
\* The function given to SetComparator there, with what it captures: the map
\* runeToWeight, and the connection, which stands here for the server's
\* answers: STRCMP is the three-way comparison of the weights in server, and
\* WEIGHT_STRING returns the weight of a rune unless the rune is in silent.
\* calls keeps a record of every call of the function.
WeightComparator(server, silent) ==
    [kind |-> "closure", runeToWeight |-> <<>>, server |-> server, silent |-> silent,
     calls |-> <<>>]

\* runeToWeight[r] = weight
SetWeight(runeToWeight, r, weight) ==
    [k \in DOMAIN runeToWeight \cup {r} |-> IF k = r THEN weight ELSE runeToWeight[k]]

\* SELECT STRCMP(...)
STRCMP(server, l, r) == ThreeWay(server[l], server[r])

\* The map after the server has answered sqlOutput.
SaveTied_AnyAnswer(runeToWeight, l, r, sqlOutput) ==
    LET lOk == l \in DOMAIN runeToWeight
        rOk == r \in DOMAIN runeToWeight
    IN  IF lOk /\ ~rOk THEN SetWeight(runeToWeight, r, runeToWeight[l])
        ELSE IF ~lOk /\ rOk THEN SetWeight(runeToWeight, l, runeToWeight[r])
        ELSE runeToWeight

SaveTied(runeToWeight, l, r, sqlOutput) ==
    LET lOk == l \in DOMAIN runeToWeight
        rOk == r \in DOMAIN runeToWeight
    IN  IF sqlOutput # 0 THEN runeToWeight
        ELSE IF lOk /\ ~rOk THEN SetWeight(runeToWeight, r, runeToWeight[l])
        ELSE IF ~lOk /\ rOk THEN SetWeight(runeToWeight, l, runeToWeight[r])
        ELSE runeToWeight

\* One call of the function: the value returned and the closure afterwards.
CallComparator(cmp, l, r) ==
    LET lOk == l \in DOMAIN cmp.runeToWeight
        rOk == r \in DOMAIN cmp.runeToWeight
        sqlOutput == STRCMP(cmp.server, l, r)
        after == IF lOk /\ rOk THEN cmp.runeToWeight
                 ELSE SaveTied(cmp.runeToWeight, l, r, sqlOutput)
        comp == IF lOk /\ rOk THEN ThreeWay(cmp.runeToWeight[l], cmp.runeToWeight[r])
                ELSE sqlOutput
        call == [l |-> l, r |-> r, before |-> cmp.runeToWeight, after |-> after,
                 queried |-> ~(lOk /\ rOk), sqlOutput |-> sqlOutput, comp |-> comp]
    IN  [comp |-> comp,
         cmp |-> [cmp EXCEPT !.runeToWeight = after, !.calls = Append(@, call)]]

\* The binary search of Insert with this function as comparator.
RECURSIVE ClosureSearch(_, _, _, _, _)
ClosureSearch(vals, cmp, r, low, high) ==
    IF high - low > 0
    THEN LET mid == (high + low) \div 2
             c == CallComparator(cmp, r, vals[mid + 1][1])
         IN  CASE c.comp = 1 -> ClosureSearch(vals, c.cmp, r, mid + 1, high)
               [] c.comp = -1 -> ClosureSearch(vals, c.cmp, r, low, mid)
               [] c.comp = 0 -> [append |-> TRUE, idx |-> mid, cmp |-> c.cmp]
    ELSE LET c == CallComparator(cmp, r, vals[low + 1][1])
         IN  IF c.comp = 0
             THEN [append |-> TRUE, idx |-> low, cmp |-> c.cmp]
             ELSE [append |-> FALSE, idx |-> NewRowIndex(c.comp, low), cmp |-> c.cmp]

\* Insert(r) with this function as comparator.
ClosureInsert(r, cmp) ==
    /\ ~panicked
    /\ IF Len(values) = 0
       THEN /\ values' = <<<<r>>>>
            /\ comparator' = cmp
       ELSE LET place == ClosureSearch(values, cmp, r, 0, Len(values) - 1)
            IN  /\ values' = IF place.append
                             THEN [values EXCEPT ![place.idx + 1] = Append(@, r)]
                             ELSE insertNewRow(values, r, place.idx)
                /\ comparator' = place.cmp
    /\ inserted' = Append(inserted, r)
    /\ UNCHANGED <<panicked, charset, goFile>>

(***************************************************************************)
(* RuneComparatorToGoFile                                                  *)
(***************************************************************************)
DynamicCutoff == 100   \* a run of at least this many runes becomes a dynamic range
StaticCutoff == 100    \* a static range with Upper-Lower of at least this is inline
NoWeight == 2147483647 \* what the generated function returns for an unknown rune

\* staticWeightRange.Count, dynamicWeightRange.Count
Count(range) == (range.Upper - range.Lower) + 1

\* staticWeightRange.LowerOffset
LowerOffset(static) == static.Weight - static.Lower

\* dynamicWeightRange.IsNext
IsNext(dynamic, static) ==
    /\ ~(Count(static) > 1)
    /\ ~(static.Lower # dynamic.Upper + 1)
    /\ ~(LowerOffset(static) # dynamic.Offset)

\* One turn of the loops of the first pass, at rune k of row weight (rows
\* counted from 0, as the weights are), over the static ranges calculated so far.
StaticStep_AnyWeight(vals, s) ==
    IF ~(s.weight < Len(vals)) THEN s
    ELSE IF s.k > Len(vals[s.weight + 1]) THEN [s EXCEPT !.weight = @ + 1, !.k = 1]
    ELSE LET r == vals[s.weight + 1][s.k]
             n == Len(s.ranges)
         IN  IF n # 0 /\ s.ranges[n].Upper + 1 = r
             THEN [s EXCEPT !.k = @ + 1, !.ranges[n].Upper = r]
             ELSE [s EXCEPT !.k = @ + 1,
                            !.ranges = Append(@, [Weight |-> s.weight, Lower |-> r, Upper |-> r])]

StaticStep(vals, s) ==
    IF ~(s.weight < Len(vals)) THEN s
    ELSE IF s.k > Len(vals[s.weight + 1]) THEN [s EXCEPT !.weight = @ + 1, !.k = 1]
    ELSE LET r == vals[s.weight + 1][s.k]
             n == Len(s.ranges)
         IN  IF n # 0 /\ s.ranges[n].Upper + 1 = r /\ s.ranges[n].Weight = s.weight
             THEN [s EXCEPT !.k = @ + 1, !.ranges[n].Upper = r]
             ELSE [s EXCEPT !.k = @ + 1,
                            !.ranges = Append(@, [Weight |-> s.weight, Lower |-> r, Upper |-> r])]

\* n turns of the loops of the first pass: the first half of them, then the
\* rest (none if the loops ended in the first half: every turn before the end
\* moves on).
RECURSIVE StaticLoop(_, _, _)
StaticLoop(vals, s, n) ==
    IF n = 0 THEN s
    ELSE IF n = 1 THEN StaticStep(vals, s)
    ELSE LET half == StaticLoop(vals, s, n \div 2)
         IN  IF half = s THEN s ELSE StaticLoop(vals, half, n - (n \div 2))

\* The runes of rows lo..hi.
RECURSIVE RuneCount(_, _, _)
RuneCount(vals, lo, hi) ==
    IF lo > hi THEN 0
    ELSE IF lo = hi THEN Len(vals[lo])
    ELSE RuneCount(vals, lo, (lo + hi) \div 2) + RuneCount(vals, ((lo + hi) \div 2) + 1, hi)

\* The first pass: the static ranges of the rows, a single rune included.
StaticRanges(vals) ==
    StaticLoop(vals, [weight |-> 0, k |-> 1, ranges |-> <<>>],
               Len(vals) + RuneCount(vals, 1, Len(vals))).ranges

\* One turn of the inner loop of the second pass, at upperIdx (from 0).
GrowStep(ranges, s) ==
    IF s.upperIdx < Len(ranges) /\ ~s.broken
    THEN IF IsNext(s.dynamic, ranges[s.upperIdx + 1])
         THEN [s EXCEPT !.dynamic.Upper = ranges[s.upperIdx + 1].Lower, !.upperIdx = @ + 1]
         ELSE [s EXCEPT !.broken = TRUE]
    ELSE s

RECURSIVE GrowLoop(_, _, _)
GrowLoop(ranges, s, n) ==
    IF n = 0 THEN s
    ELSE IF n = 1 THEN GrowStep(ranges, s)
    ELSE LET half == GrowLoop(ranges, s, n \div 2)
         IN  IF half = s THEN s ELSE GrowLoop(ranges, half, n - (n \div 2))

\* The inner loop of the second pass: the dynamic range grown over the static
\* ranges from upperIdx on, and the index the loop stopped at.
GrowDynamic(ranges, dynamic, upperIdx) ==
    GrowLoop(ranges, [dynamic |-> dynamic, upperIdx |-> upperIdx, broken |-> FALSE],
             Len(ranges) - upperIdx)

\* The static ranges after the copy and the truncation that cut the promoted
\* run lowerIdx..upperIdx-1 (from 0) out.
CutRun_Keep(ranges, lowerIdx, upperIdx) == ranges

CutRun(ranges, lowerIdx, upperIdx) ==
    SubSeq(ranges, 1, lowerIdx) \o SubSeq(ranges, upperIdx + 1, Len(ranges))

\* One turn of the outer loop of the second pass, at lowerIdx (from 0), its
\* lowerIdx++ included.  A promoted run is cut out of the static ranges.
DynamicStep(s) ==
    IF ~(s.lowerIdx < Len(s.static)) THEN s
    ELSE LET static == s.static[s.lowerIdx + 1]
             grown == GrowDynamic(s.static,
                                  [Offset |-> LowerOffset(static),
                                   Lower |-> static.Lower, Upper |-> static.Upper],
                                  s.lowerIdx + 1)
             upperIdx == grown.upperIdx
         IN  IF Count(static) > 1
             THEN [s EXCEPT !.lowerIdx = @ + 1]
             ELSE IF Count(grown.dynamic) >= DynamicCutoff
             THEN [static |-> CutRun(s.static, s.lowerIdx, upperIdx),
                   dynamic |-> Append(s.dynamic, grown.dynamic),
                   lowerIdx |-> s.lowerIdx + 1]
             ELSE [s EXCEPT !.lowerIdx = (upperIdx - 1) + 1]

RECURSIVE DynamicLoop(_, _)
DynamicLoop(s, n) ==
    IF n = 0 THEN s
    ELSE IF n = 1 THEN DynamicStep(s)
    ELSE LET half == DynamicLoop(s, n \div 2)
         IN  IF half = s THEN s ELSE DynamicLoop(half, n - (n \div 2))

\* The second pass: the static ranges that remain and the dynamic ranges.
DynamicRanges(ranges) ==
    DynamicLoop([static |-> ranges, dynamic |-> <<>>, lowerIdx |-> 0], Len(ranges))

\* RuneComparatorToGoFile: the ranges the generated file is written from.
GoFile(vals) ==
    LET passOne == StaticRanges(vals)
        passTwo == DynamicRanges(passOne)
    IN  [written |-> TRUE, passOne |-> passOne,
         static |-> passTwo.static, dynamic |-> passTwo.dynamic]

RuneComparatorToGoFile ==
    /\ ~panicked
    /\ goFile' = GoFile(values)
    /\ UNCHANGED <<values, comparator, inserted, panicked, charset>>

\* The static ranges written as entries of the _Weights map, and those written
\* as a range comparison of the _RuneWeight function.
InMap(static) == ~(static.Upper - static.Lower >= StaticCutoff)

\* The first range of a sequence that holds r, 0 if none does.
RECURSIVE FirstHolding(_, _, _)
FirstHolding(ranges, r, i) ==
    IF i > Len(ranges) THEN 0
    ELSE IF r >= ranges[i].Lower /\ r <= ranges[i].Upper THEN i
    ELSE FirstHolding(ranges, r, i + 1)

\* What the range comparison written for a dynamic range returns: the offset
\* is written as a sign and an absolute value.
DynamicWeight_SignLost(dynamic, r) ==
    IF dynamic.Offset < 0 THEN r + (dynamic.Offset * (-1)) ELSE r + dynamic.Offset

DynamicWeight(dynamic, r) ==
    IF dynamic.Offset < 0 THEN r - (dynamic.Offset * (-1)) ELSE r + dynamic.Offset

\* The generated _RuneWeight function: the _Weights map, then the dynamic
\* ranges, then the inline static ranges, then 2147483647.  (A rune with two
\* entries in the map makes the file a Go compile error; the entry is then
\* undetermined.)
RuneWeight(file, r) ==
    LET entries == {i \in 1..Len(file.static) :
                        InMap(file.static[i]) /\ r >= file.static[i].Lower /\ r <= file.static[i].Upper}
        inline == SelectSeq(file.static, LAMBDA static : ~InMap(static))
        inDynamic == FirstHolding(file.dynamic, r, 1)
        inInline == FirstHolding(inline, r, 1)
    IN  IF entries # {} THEN file.static[CHOOSE i \in entries : TRUE].Weight
        ELSE IF inDynamic # 0 THEN DynamicWeight(file.dynamic[inDynamic], r)
        ELSE IF inInline # 0 THEN inline[inInline].Weight
        ELSE NoWeight

CatInit == /\ values = NewRuneComparator.values
           /\ comparator = NewRuneComparator.comparator
           /\ inserted = <<>>
           /\ panicked = FALSE
           /\ charset = {}
           /\ goFile = NoGoFile

Init == IterInit /\ TrieInit /\ RangeInit /\ CatInit

IterNext == UTF8IterNext /\ UNCHANGED <<trieVars, rangeVars, catVars>>

SpecIter == Init /\ [][IterNext]_vars

\* The iterator under Next, SetIteratorLimit and Reset calls in any order, as
\* long as it (and the new iterator it is compared with) stands before
\* MaxResetRune or has reached its limit.
MaxResetRune == 3      \* Next is called on an iterator that stands before this rune
ResetLimits == {-1, 0, 1, 2, MaxInt32}

IterResetNext ==
    /\ \/ /\ iter.r < MaxResetRune \/ UTF8IterExhausted(iter)
          /\ fresh.iter.r < MaxResetRune
          /\ UTF8IterNext
       \/ \E limit \in ResetLimits : SetIteratorLimit(limit)
       \/ Reset
    /\ UNCHANGED <<trieVars, rangeVars, catVars>>

SpecIterReset == Init /\ [][IterResetNext]_vars

\* SetIteratorLimit called on a new iterator, then Next calls only.  The limits:
\* negative, zero, small, one that ends the sequence right after the surrogate
\* block was stepped over, and one above the number of valid code points.
NumValidRunes == (MaxRune + 1) - ((utf8SurrogateMax - utf8SurrogateMin) + 1)
IterLimits == {-1, 0, 1, 2, utf8SurrogateMin + 1, NumValidRunes + 1}

IterLimitNext ==
    /\ \/ \E limit \in IterLimits :
              iter = NewUTF8Iter /\ ~iterRes.called /\ SetIteratorLimit(limit)
       \/ iter.limit # NewUTF8Iter.limit /\ UTF8IterNext
    /\ UNCHANGED <<trieVars, rangeVars, catVars>>

SpecIterLimit == Init /\ [][IterLimitNext]_vars

\* The trie under AddChild and SetData calls, each call observed.
TrieNext ==
    /\ \/ \E p \in DOMAIN tree, val \in TrieBytes : AddChildCall(p, val)
       \/ \E p \in DOMAIN tree, data \in TrieData : SetDataCall(p, data)
    /\ UNCHANGED <<iterVars, rangeVars, catVars>>

SpecTrie == Init /\ [][TrieNext]_vars

\* The trie built by AddChild and SetData calls and then enumerated.
TrieIterNext ==
    /\ \/ \E p \in DOMAIN tree, val \in TrieBytes :
              AddChild(p, val, MaxIterNodes) /\ UNCHANGED trieCall
       \/ \E p \in DOMAIN tree, data \in TrieData :
              SetData(p, data) /\ UNCHANGED trieCall
       \/ Iterator
       \/ CseiNext
    /\ UNCHANGED <<iterVars, rangeVars, catVars>>

SpecTrieIter == Init /\ [][TrieIterNext]_vars

\* The constructor filled in iterator order, Map(), and the codec calls.
RangeNext ==
    /\ \/ \E i \in ByteSeqs(InputBytes, RangeLens), o \in ByteSeqs(OutputBytes, RangeLens) :
              rm = NoRangeMap /\ Len(added) < MaxPairs /\ NextPair(i, o) /\ AddValidEncoding(i, o)
       \/ rm = NoRangeMap /\ Map
       \/ CodecCalls
    /\ UNCHANGED <<iterVars, trieVars, catVars>>

SpecRange == Init /\ [][RangeNext]_vars

\* The same calls for a character set of two-byte encodings only, with more pairs.
MaxGridPairs == 4      \* AddValidEncoding is called at most this many times
GridLens == {2}        \* the lengths of the encodings

RangeGridNext ==
    /\ \/ \E i \in ByteSeqs(InputBytes, GridLens), o \in ByteSeqs(OutputBytes, GridLens) :
              rm = NoRangeMap /\ Len(added) < MaxGridPairs /\ NextPair(i, o) /\ AddValidEncoding(i, o)
       \/ rm = NoRangeMap /\ Map
       \/ CodecCalls
    /\ UNCHANGED <<iterVars, trieVars, catVars>>

SpecRangeGrid == Init /\ [][RangeGridNext]_vars

\* The constructor given any pairs in any order, the empty input and repeated
\* pairs included, and Map().
MaxAnyPairs == 3       \* AddValidEncoding is called at most this many times
AnyInputs == {<<>>, <<0>>, <<1>>, <<2>>, <<0, 0>>}
AnyOutputs == {<<0>>, <<1>>, <<2>>, <<0, 0>>}

RangeAnyNext ==
    /\ \/ \E i \in AnyInputs, o \in AnyOutputs :
              rm = NoRangeMap /\ Len(added) < MaxAnyPairs /\ AddValidEncoding(i, o)
       \/ rm = NoRangeMap /\ Map
    /\ UNCHANGED <<iterVars, trieVars, catVars>>

SpecRangeAny == Init /\ [][RangeAnyNext]_vars

\* The constructor given two-byte inputs with one-byte outputs, in iterator
\* order, and Map().
MaxNarrowPairs == 3    \* AddValidEncoding is called at most this many times
NarrowInputs == ByteSeqs({0, 1}, {2})
NarrowOutputs == ByteSeqs({0, 1, 2, 255}, {1})

RangeNarrowNext ==
    /\ \/ \E i \in NarrowInputs, o \in NarrowOutputs :
              rm = NoRangeMap /\ Len(added) < MaxNarrowPairs /\ NextPair(i, o) /\ AddValidEncoding(i, o)
       \/ rm = NoRangeMap /\ Map
    /\ UNCHANGED <<iterVars, trieVars, catVars>>

SpecRangeNarrow == Init /\ [][RangeNarrowNext]_vars

\* A constructor that is used on after Map() has returned: more pairs are
\* added, in iterator order, and Map() is called again.
MaxAgainPairs == 3     \* AddValidEncoding is called at most this many times
AgainBytes == {0, 1, 2}
AgainLens == {1}

RangeAgainNext ==
    /\ \/ \E i \in ByteSeqs(AgainBytes, AgainLens), o \in ByteSeqs(AgainBytes, AgainLens) :
              Len(added) < MaxAgainPairs /\ NextPair(i, o) /\ AddValidEncoding(i, o)
       \/ Map
    /\ UNCHANGED <<iterVars, trieVars, catVars>>

SpecRangeAgain == Init /\ [][RangeAgainNext]_vars

\* CharacterSetToRangeMap: the tree built by AddChild and SetData calls, its
\* iterator emptied into a constructor, Map(), and Decode and Encode calls.
MaxCharsetNodes == 2   \* AddChild creates at most this many nodes
CharsetBytes == {65, 66}     \* 0x41, 0x42
CharsetProbes == ByteSeqs({65, 66, 67}, {1, 2})

\* One turn of the loop that adds all codepoints to the constructor.
AddNextEncoding ==
    /\ ~cseiRes.ended
    /\ rm = NoRangeMap
    /\ CseiNext
    /\ IF cseiRes'.ok
       THEN AddValidEncoding(cseiOut'[Len(cseiOut')][1], cseiOut'[Len(cseiOut')][2])
       ELSE UNCHANGED rangeVars

CharsetCodecCalls ==
    /\ rm # NoRangeMap
    /\ codec = <<>>
    /\ codec' = [decode |-> [data \in CharsetProbes |-> Decode(heap, rm, data)],
                 encode |-> [data \in CharsetProbes |-> Encode(heap, rm, data)]]
    /\ UNCHANGED <<heap, rc, rm, added, consolidated, firstMap>>

CharsetNext ==
    /\ \/ \E p \in DOMAIN tree, val \in CharsetBytes :
              AddChild(p, val, MaxCharsetNodes) /\ UNCHANGED <<trieCall, rangeVars>>
       \/ \E p \in DOMAIN tree, data \in TrieData :
              SetData(p, data) /\ UNCHANGED <<trieCall, rangeVars>>
       \/ Iterator /\ UNCHANGED rangeVars
       \/ AddNextEncoding
       \/ cseiRes.ended /\ rm = NoRangeMap /\ Map /\ UNCHANGED trieVars
       \/ CharsetCodecCalls /\ UNCHANGED trieVars
    /\ UNCHANGED <<iterVars, catVars>>

SpecCharset == Init /\ [][CharsetNext]_vars

\* The catalog under SetComparator (once, any consistent comparator) and
\* Insert calls in any order.
MaxInserts == 4        \* Insert is called at most this many times
CatRunes == 0..3       \* the runes given to Insert
CatWeights == 1..3     \* the weights the comparators order the runes by

\* The tables of the consistent three-way comparisons of CatRunes.
ConsistentComparators ==
    {[kind |-> "table",
      table |-> [p \in CatRunes \X CatRunes |-> ThreeWay(w[p[1]], w[p[2]])]] :
        w \in [CatRunes -> CatWeights]}

CatalogNext ==
    /\ \/ \E cmp \in ConsistentComparators : SetComparator(cmp)
       \/ \E r \in CatRunes : Len(inserted) < MaxInserts /\ Insert(r)
    /\ UNCHANGED <<iterVars, trieVars, rangeVars>>

SpecCatalog == Init /\ [][CatalogNext]_vars

\* The catalog under a comparator that returns -1, 0 or 1 in any way, consistent
\* or not, the runes given in ascending order, each once.  Insert calls the
\* comparator with the rune given and a rune given before it, so the results of
\* those calls are all that is chosen.
MaxAnyInserts == 5     \* Insert is called at most this many times
AnyRunes == 0..4       \* the runes given to Insert

AnyComparators ==
    {[kind |-> "table",
      table |-> [p \in AnyRunes \X AnyRunes |-> IF p[1] > p[2] THEN f[p] ELSE 0]] :
        f \in [{p \in AnyRunes \X AnyRunes : p[1] > p[2]} -> {-1, 0, 1}]}

CatalogAnyNext ==
    /\ \/ comparator = NoComparator /\ \E cmp \in AnyComparators : SetComparator(cmp)
       \/ /\ comparator # NoComparator
          /\ Len(inserted) < MaxAnyInserts
          /\ Len(inserted) \in AnyRunes
          /\ Insert(Len(inserted))
    /\ UNCHANGED <<iterVars, trieVars, rangeVars>>

SpecCatalogAny == Init /\ [][CatalogAnyNext]_vars

\* The collation extraction: the runes of the iterator in order, those valid
\* in the character set inserted, the file written from the catalog.
MaxCompressRune == 210   \* the extraction loop stops before this rune

CompressRunes == 0..(MaxCompressRune - 1)
Cuts == {1, 100, 105}

\* The character sets: every rune valid, or all but one.
CharacterSets == {CompressRunes} \cup {CompressRunes \ {g} : g \in {3, 150}}

\* The weights the server orders the runes by.
CollationWeight(shape, c) ==
    CASE shape.kind = "identity" -> c
      [] shape.kind = "constant" -> 0
      [] shape.kind = "descending" -> MaxCompressRune - c
      [] shape.kind = "pairs" -> c \div 2
      [] shape.kind = "interleaved" -> IF c < shape.cut THEN 2 * c ELSE 2 * (c - shape.cut) + 1
      [] shape.kind = "swapped" -> IF c < shape.cut THEN c + MaxCompressRune ELSE c
      [] shape.kind = "tail" -> IF c < shape.cut THEN c ELSE shape.cut
      [] shape.kind = "head" -> IF c < shape.cut THEN 0 ELSE c

CollationShapes ==
    {[kind |-> k, cut |-> 0] : k \in {"identity", "constant", "descending", "pairs"}}
        \cup {[kind |-> k, cut |-> a] : k \in {"interleaved", "swapped", "tail", "head"}, a \in Cuts}

Collations ==
    {[kind |-> "weights", weight |-> [c \in 0..MaxCompressRune |-> CollationWeight(shape, c)]] :
        shape \in CollationShapes}

\* CharacterSetToRangeMap, as far as the extraction uses it.
CharacterSetToRangeMap(valid) ==
    /\ charset = {}
    /\ comparator = NoComparator
    /\ charset' = valid
    /\ UNCHANGED <<values, comparator, inserted, panicked, goFile>>
    /\ UNCHANGED iterVars

\* One turn of the loop of TestExtractCollation.
ExtractRune ==
    /\ charset # {}
    /\ comparator # NoComparator
    /\ goFile = NoGoFile
    /\ iter.r < MaxCompressRune
    /\ UTF8IterNext
    /\ iterRes'.found
    /\ IF iterRes'.r \in charset
       THEN Insert(iterRes'.r)
       ELSE UNCHANGED catVars

CompressNext ==
    /\ \/ \E valid \in CharacterSets : CharacterSetToRangeMap(valid)
       \/ \E cmp \in Collations : charset # {} /\ SetComparator(cmp) /\ UNCHANGED iterVars
       \/ ExtractRune
       \/ goFile = NoGoFile /\ RuneComparatorToGoFile /\ UNCHANGED iterVars
    /\ UNCHANGED <<trieVars, rangeVars>>

SpecCompress == Init /\ [][CompressNext]_vars

\* The extraction with the comparator of TestExtractCollation: the weights of
\* the runes asked from the server, the comparator asking the server when it
\* lacks one.
MaxWeighRune == 4        \* the extraction loop stops before this rune
WeighRunes == 0..(MaxWeighRune - 1)
ServerWeights == 1..2    \* the weights the server orders the runes by

\* One turn of the loop of TestExtractCollation: the rune's weight is kept if
\* the server returns one, then the rune is inserted.
WeighRune ==
    /\ charset # {}
    /\ comparator # NoComparator
    /\ iter.r < MaxWeighRune
    /\ UTF8IterNext
    /\ iterRes'.found
    /\ IF iterRes'.r \in charset
       THEN LET r == iterRes'.r
                weighed == IF r \in comparator.silent
                           THEN comparator.runeToWeight
                           ELSE SetWeight(comparator.runeToWeight, r, comparator.server[r])
            IN  ClosureInsert(r, [comparator EXCEPT !.runeToWeight = weighed])
       ELSE UNCHANGED catVars

WeighNext ==
    /\ \/ \E valid \in {WeighRunes} \cup {WeighRunes \ {g} : g \in WeighRunes} :
              CharacterSetToRangeMap(valid)
       \/ \E server \in [WeighRunes -> ServerWeights], silent \in SUBSET WeighRunes :
              charset # {} /\ SetComparator(WeightComparator(server, silent)) /\ UNCHANGED iterVars
       \/ WeighRune
    /\ UNCHANGED <<trieVars, rangeVars>>

SpecWeigh == Init /\ [][WeighNext]_vars

(***************************************************************************)
(* Claims about RangeMapConstructor and RangeMap                           *)
(***************************************************************************)
Found(bytes) == [out |-> bytes, ok |-> TRUE, panic |-> FALSE]

AddedInputs == {added[k][1] : k \in 1..Len(added)}
AddedOutputs == {added[k][2] : k \in 1..Len(added)}

\* C1 as claimed: for pairs with distinct inputs and distinct outputs of
\* length 1..4, added in iterator order, the map returned by Map() decodes the
\* input of every pair to its output and encodes the output to its input.
C1_RoundTrip ==
    codec # <<>> =>
        \A k \in 1..Len(added) :
            /\ codec.decode[added[k][1]] = Found(added[k][2])
            /\ codec.encode[added[k][2]] = Found(added[k][1])

\* C2 as claimed: Decode of a byte sequence (1..4 bytes) that was the input of
\* no added pair returns ok=false, and so does Encode of a byte sequence that
\* was the output of no added pair.
C2_LookupMiss ==
    codec # <<>> =>
        \A data \in Probes :
            (Len(data) >= 1 /\ Len(data) <= MaxEncodingLen) =>
                /\ data \notin AddedInputs => ~codec.decode[data].ok
                /\ data \notin AddedOutputs => ~codec.encode[data].ok

\* The entries of the map built, and the number of byte sequences a range holds.
MapEntries ==
    UNION {Range(rm.inputEntries[b]) : b \in DOMAIN rm.inputEntries}

RECURSIVE BoxSize(_)
BoxSize(range) ==
    IF Len(range) = 0 THEN 1
    ELSE ((range[1][2] - range[1][1]) + 1) * BoxSize(Tail(range))

\* C11 as claimed: every entry of the map holds as many byte sequences in its
\* input range as in its output range, and as many as pairs were merged into it.
C11_EntryCardinality ==
    rm # NoRangeMap =>
        \A entry \in MapEntries :
            /\ BoxSize(heap[entry.inputRange]) = BoxSize(heap[entry.outputRange])
            /\ BoxSize(heap[entry.inputRange]) = Cardinality(consolidated.members[entry.inputRange])

\* Two ranges of one length hold a common byte sequence.
Overlap(r, other) ==
    \A i \in 1..Len(r) : Max(r[i][1], other[i][1]) <= Min(r[i][2], other[i][2])

\* C12 as claimed: no byte sequence is in the input range of two entries of one
\* bucket of inputEntries, nor in the output range of two entries of one bucket
\* of outputEntries.
C12_NoOverlap ==
    rm # NoRangeMap =>
        \A b \in 1..MaxEncodingLen :
            /\ \A i \in 1..Len(rm.inputEntries[b]) : \A j \in 1..(i - 1) :
                   ~Overlap(heap[rm.inputEntries[b][i].inputRange],
                            heap[rm.inputEntries[b][j].inputRange])
            /\ \A i \in 1..Len(rm.outputEntries[b]) : \A j \in 1..(i - 1) :
                   ~Overlap(heap[rm.outputEntries[b][i].outputRange],
                            heap[rm.outputEntries[b][j].outputRange])

\* C13 as claimed: Decode and Encode return normally for every byte sequence,
\* the empty one and one longer than 4 bytes included, with ok=false when the
\* sequence is too long or no entry holds it.
C13_CodecTotal ==
    codec # <<>> =>
        \A data \in Probes :
            /\ ~codec.decode[data].panic
            /\ ~codec.encode[data].panic
            /\ Len(data) > MaxEncodingLen =>
                   ~codec.decode[data].ok /\ ~codec.encode[data].ok
            /\ (\A entry \in MapEntries :
                    Len(heap[entry.inputRange]) # Len(data) \/ ~contains(heap[entry.inputRange], data))
                   => ~codec.decode[data].ok
            /\ (\A entry \in MapEntries :
                    Len(heap[entry.outputRange]) # Len(data) \/ ~contains(heap[entry.outputRange], data))
                   => ~codec.encode[data].ok

\* C17: the tree that holds exactly the paths [0x41] with data [65] and [0x42]
\* with data [66], enumerated into a constructor, gives a map of exactly one
\* entry, input range [0x41..0x42] and output range [65..66], that decodes
\* [0x41] to [65] and [0x42] to [66] and does not decode [0x43].
C17_TwoPairScenario ==
    (/\ DOMAIN tree = {<<>>, <<65>>, <<66>>}
     /\ tree[<<>>].data = Nil
     /\ <<65>> = tree[<<65>>].data
     /\ <<66>> = tree[<<66>>].data
     /\ codec # <<>>) =>
        /\ Cardinality(MapEntries) = 1
        /\ \A entry \in MapEntries :
               /\ heap[entry.inputRange] = <<<<65, 66>>>>
               /\ heap[entry.outputRange] = <<<<65, 66>>>>
        /\ codec.decode[<<65>>] = Found(<<65>>)
        /\ codec.decode[<<66>>] = Found(<<66>>)
        /\ ~codec.decode[<<67>>].ok

\* C17 witness: that tree was enumerated, the map built and Decode called.
C17_Witness ==
    /\ DOMAIN tree = {<<>>, <<65>>, <<66>>}
    /\ tree[<<>>].data = Nil
    /\ <<65>> = tree[<<65>>].data
    /\ <<66>> = tree[<<66>>].data
    /\ added = << <<<<65>>, <<65>>>>, <<<<66>>, <<66>>>> >>
    /\ codec # <<>>

\* The pairs AddValidEncoding took (it ignores a pair with an empty input).
PairsAdded == Cardinality({k \in 1..Len(added) : Len(added[k][1]) # 0})

\* C18: consolidateRanges ends for every list of added pairs: every pass leaves
\* as many ranges as it found less one for each merge it made, never more than
\* it found; every pass but the last made a merge and the last made none; and
\* at least one range is left when a pair was added.
C18_ConsolidationEnds ==
    rm # NoRangeMap =>
        LET passes == consolidated.passes
        IN  /\ Len(passes) >= 1
            /\ passes[1].before = PairsAdded
            /\ \A k \in 1..Len(passes) :
                   /\ passes[k].after <= passes[k].before
                   /\ passes[k].after = passes[k].before - passes[k].merges
                   /\ k < Len(passes) => /\ passes[k].merges > 0
                                         /\ passes[k + 1].before = passes[k].after
                   /\ k = Len(passes) => /\ passes[k].merges = 0
                                         /\ passes[k].after = Len(rc.inputEnc)
            /\ PairsAdded >= 1 => Len(rc.inputEnc) >= 1

\* C18 witness: two passes made a merge each, the third made none.
C18_Witness ==
    /\ rm # NoRangeMap
    /\ Len(consolidated.passes) = 3
    /\ consolidated.passes[1].merges = 1
    /\ consolidated.passes[2].merges = 1

\* The merge rule on one side: equal lengths, and at most one position where
\* the bounds of cur are not within those of prev, cur lying right against
\* prev there (no byte follows 255).
MergeRule(prev, cur) ==
    /\ Len(prev) = Len(cur)
    /\ LET outside == {i \in 1..Len(prev) :
                           ~(prev[i][1] <= cur[i][1] /\ cur[i][2] <= prev[i][2])}
       IN  /\ Cardinality(outside) <= 1
           /\ \A i \in outside : \/ cur[i][1] = prev[i][2] + 1
                                  \/ prev[i][1] = cur[i][2] + 1

UnionBounds(prev, cur) ==
    [i \in 1..Len(prev) |-> <<Min(prev[i][1], cur[i][1]), Max(prev[i][2], cur[i][2])>>]

\* The comparisons consolidateRanges made, over all its passes.
ConsolidationSteps ==
    UNION {Range(consolidated.passes[k].steps) : k \in 1..Len(consolidated.passes)}

\* C19: in a pass the current pair is merged into the last kept pair exactly
\* when the merge rule holds on the input side and on the output side; the last
\* kept pair then has the union bounds on both sides; otherwise the current
\* pair is kept as a new range, its bounds unchanged.
C19_MergeRule ==
    \A step \in ConsolidationSteps :
        /\ step.merged <=> (MergeRule(step.lastIn, step.curIn) /\ MergeRule(step.lastOut, step.curOut))
        /\ step.merged => /\ step.thenIn = UnionBounds(step.lastIn, step.curIn)
                          /\ step.thenOut = UnionBounds(step.lastOut, step.curOut)
        /\ ~step.merged => /\ step.thenIn = step.curIn
                           /\ step.thenOut = step.curOut

\* C19 witness: a pair that was kept only because its output follows the last
\* kept output across the wrap from 255 to 0, and a pair that was merged.
C19_Witness ==
    /\ \E step \in ConsolidationSteps :
           /\ ~step.merged
           /\ MergeRule(step.lastIn, step.curIn)
           /\ Len(step.lastOut) = Len(step.curOut)
           /\ \E i \in 1..Len(step.curOut) :
                  /\ step.lastOut[i] = <<255, 255>>
                  /\ step.curOut[i] = <<0, 0>>
                  /\ \A j \in 1..Len(step.curOut) : j # i => step.curOut[j] = step.lastOut[j]
    /\ \E step \in ConsolidationSteps : step.merged

\* The byte sequences a range holds.
BoxSeqs(range) ==
    {data \in [1..Len(range) -> UNION {range[i][1]..range[i][2] : i \in 1..Len(range)}] :
        contains(range, data)}

\* The bounds a range of a cover can have at one position: a range that holds
\* added byte sequences only is narrower than the number of pairs.
CoverBounds(bytes) ==
    {b \in bytes \X bytes : b[1] <= b[2] /\ b[2] - b[1] < MaxGridPairs}

CoverRanges(bytes) ==
    UNION {[1..n -> CoverBounds(bytes)] : n \in GridLens}

\* The pairs that one paired range stands for: the map made of that entry alone
\* decodes each byte sequence of its input range.
PairedRangeMap(inputRange, outputRange) ==
    mapEntries(<<inputRange, outputRange>>, <<1>>, <<2>>, 1, EmptyRangeMap)

PairedRangePairs(inputRange, outputRange) ==
    {<<data, Decode(<<inputRange, outputRange>>,
                    PairedRangeMap(inputRange, outputRange), data).out>> :
        data \in BoxSeqs(inputRange)}

\* A paired range that stands for constructed pairs only, each of its byte
\* sequences making the round trip.
ExactPairedRange(inputRange, outputRange) ==
    LET h == <<inputRange, outputRange>>
        m == PairedRangeMap(inputRange, outputRange)
    IN  /\ BoxSize(inputRange) = BoxSize(outputRange)
        /\ PairedRangePairs(inputRange, outputRange) \subseteq Range(added)
        /\ \A data \in BoxSeqs(inputRange) :
               Encode(h, m, Decode(h, m, data).out) = Found(data)
        /\ \A data \in BoxSeqs(outputRange) :
               /\ Encode(h, m, data).ok
               /\ Decode(h, m, Encode(h, m, data).out) = Found(data)

ExactPairedRanges ==
    {e \in CoverRanges(InputBytes) \X CoverRanges(OutputBytes) : ExactPairedRange(e[1], e[2])}

\* The sets of paired ranges that cover exactly the constructed pairs.
ExactCovers ==
    {cover \in SUBSET ExactPairedRanges :
        UNION {PairedRangePairs(e[1], e[2]) : e \in cover} = Range(added)}

\* C20 as claimed: no set of paired ranges that covers exactly the constructed
\* pairs, each byte sequence making the round trip, has fewer ranges than the
\* map returned by Map() has entries.
C20_Minimal ==
    rm # NoRangeMap =>
        \A cover \in ExactCovers : Cardinality(MapEntries) <= Cardinality(cover)

\* The product of the numbers of values of the positions after i.
RECURSIVE SizeAfter(_, _)
SizeAfter(range, i) ==
    IF i >= Len(range) THEN 1
    ELSE ((range[i + 1][2] - range[i + 1][1]) + 1) * SizeAfter(range, i + 1)

LexLess(a, b) ==
    \E i \in 1..Len(a) : a[i] < b[i] /\ \A j \in 1..(i - 1) : a[j] = b[j]

\* The index of a byte sequence of a range: the sum of (byte - min) * multiplier.
IndexIn(range, mults, data) == increaseOf(data, range, mults, Len(data))

MultsRight(range, mults) ==
    /\ Len(mults) = Len(range)
    /\ \A i \in 1..Len(range) : mults[i] = SizeAfter(range, i)
    /\ mults[Len(range)] = 1
    /\ \A data \in BoxSeqs(range) : IndexIn(range, mults, data) \in 0..(BoxSize(range) - 1)
    /\ \A a, b \in BoxSeqs(range) :
           LexLess(a, b) => IndexIn(range, mults, a) < IndexIn(range, mults, b)

\* C21: in every entry of the map, on the input side and on the output side,
\* the last position has multiplier 1 and every other position the product of
\* the numbers of values of the positions after it; the index of a byte
\* sequence of the range lies in 0..cardinality-1 and grows with the
\* lexicographic order, so the range maps one-to-one onto 0..cardinality-1.
C21_Multipliers ==
    rm # NoRangeMap =>
        \A entry \in MapEntries :
            /\ MultsRight(heap[entry.inputRange], entry.inputMults)
            /\ MultsRight(heap[entry.outputRange], entry.outputMults)

\* C21 witness: an entry whose first input position has a multiplier above 1.
C21_Witness ==
    /\ rm # NoRangeMap
    /\ \E entry \in MapEntries :
           /\ entry.inputMults[1] > 1
           /\ BoxSize(heap[entry.inputRange]) > entry.inputMults[1]

\* C22 as claimed: whatever is done with the constructor after Map() has
\* returned a RangeMap, the ranges of that map's entries stay as they were when
\* it was returned, and so do the results of its Decode and Encode calls.
C22_MapImmutable ==
    firstMap.returned =>
        /\ \A b \in 1..MaxEncodingLen : \A k \in 1..Len(firstMap.rm.inputEntries[b]) :
               LET entry == firstMap.rm.inputEntries[b][k]
               IN  /\ heap[entry.inputRange] = firstMap.h[entry.inputRange]
                   /\ heap[entry.outputRange] = firstMap.h[entry.outputRange]
        /\ \A data \in ByteSeqs(AgainBytes, AgainLens) :
               /\ Decode(heap, firstMap.rm, data) = Decode(firstMap.h, firstMap.rm, data)
               /\ Encode(heap, firstMap.rm, data) = Encode(firstMap.h, firstMap.rm, data)

\* Every byte of data lies within the bounds of its position in range.
WithinRange(range, data) ==
    /\ Len(data) = Len(range)
    /\ \A i \in 1..Len(range) : range[i][1] <= data[i] /\ data[i] <= range[i][2]

\* The entries of a bucket that hold data in their input range, and in their
\* output range; the scans of Decode and Encode answer from the first of them.
HoldingInput(data) ==
    {k \in 1..Len(rm.inputEntries[Len(data)]) :
        contains(heap[rm.inputEntries[Len(data)][k].inputRange], data)}

HoldingOutput(data) ==
    {k \in 1..Len(rm.outputEntries[Len(data)]) :
        contains(heap[rm.outputEntries[Len(data)][k].outputRange], data)}

\* C28 as claimed: what Decode returns with ok=true lies within the output
\* range of the entry that held the data, byte by byte, and what Encode returns
\* with ok=true lies within the input range of the entry that held it.
C28_CodecInRange ==
    rm # NoRangeMap =>
        /\ \A data \in NarrowInputs :
               Decode(heap, rm, data).ok =>
                   \A k \in HoldingInput(data) :
                       (\A j \in HoldingInput(data) : k <= j) =>
                           WithinRange(heap[rm.inputEntries[Len(data)][k].outputRange],
                                       Decode(heap, rm, data).out)
        /\ \A data \in NarrowOutputs :
               Encode(heap, rm, data).ok =>
                   \A k \in HoldingOutput(data) :
                       (\A j \in HoldingOutput(data) : k <= j) =>
                           WithinRange(heap[rm.outputEntries[Len(data)][k].inputRange],
                                       Encode(heap, rm, data).out)

(***************************************************************************)
(* Claims about RuneComparator                                             *)
(***************************************************************************)
\* C3: with a consistent three-way comparator, after any sequence of Insert
\* calls the comparator returns -1 for every a of a row and every b of a later
\* row, and 0 for any two code points of one row.
C3_CatalogOrder ==
    comparator # NoComparator =>
        \A i \in 1..Len(values) : \A j \in 1..Len(values) :
            \A a \in Range(values[i]) : \A b \in Range(values[j]) :
                /\ i < j => Compare(comparator, a, b) = -1
                /\ i = j => Compare(comparator, a, b) = 0

\* C3 witness: three rows, one of them with two different code points, the last
\* Insert having put its rune before the last row.
C3_Witness ==
    /\ comparator # NoComparator
    /\ Len(values) = 3
    /\ \E i \in 1..2 : inserted[Len(inserted)] \in Range(values[i])
    /\ \E i \in 1..3 : Cardinality(Range(values[i])) = 2

\* The rows whose first element compares equal to r.
TiedRows(vals, cmp, r) == {k \in 1..Len(vals) : Compare(cmp, r, vals[k][1]) = 0}

RowsSorted(vals, cmp) ==
    \A i \in 1..(Len(vals) - 1) : Compare(cmp, vals[i][1], vals[i + 1][1]) = -1

\* r was appended to row k, every other row left as it was.
AppendedTo(before, after, r, k) ==
    /\ Len(after) = Len(before)
    /\ after[k] = Append(before[k], r)
    /\ \A i \in 1..Len(before) : i # k => after[i] = before[i]

\* A row holding only r was put in ahead of the rows after the first n, which
\* moved up by one; the first n rows stayed.
NewRowAfter(before, after, r, n) ==
    /\ Len(after) = Len(before) + 1
    /\ after[n + 1] = <<r>>
    /\ \A i \in 1..n : after[i] = before[i]
    /\ \A i \in (n + 1)..Len(before) : after[i + 1] = before[i]

\* C23: an Insert(r) made with a consistent comparator either appends r to the
\* one row whose first element compares equal to r, or, no such row existing,
\* puts a new row holding only r where the rows stay sorted; every other row
\* keeps its contents, the rows before the new one their index, and the rows
\* from there on move up by one.
C23_InsertPlacement ==
    [][(comparator # NoComparator /\ inserted' # inserted) =>
          LET r == inserted'[Len(inserted')]
              tied == TiedRows(values, comparator, r)
          IN  IF tied # {}
              THEN /\ Cardinality(tied) = 1
                   /\ \A k \in tied : AppendedTo(values, values', r, k)
              ELSE /\ \E n \in 0..Len(values) : NewRowAfter(values, values', r, n)
                   /\ RowsSorted(values', comparator)]_vars

\* C23 witness: the last Insert put a new row between two rows, one of which
\* holds two code points, and an earlier Insert appended to a row.
C23_Witness ==
    /\ comparator # NoComparator
    /\ Len(values) = 3
    /\ values[2] = <<inserted[Len(inserted)]>>
    /\ \E i \in {1, 3} : Len(values[i]) = 2

\* The places <<row, position>> of the catalog that hold r.
PlacesOf(r) ==
    {pl \in (1..Len(values)) \X (1..Len(inserted)) :
        pl[2] <= Len(values[pl[1]]) /\ values[pl[1]][pl[2]] = r}

\* C29: after Insert calls with distinct code points and a comparator that
\* returns -1, 0 or 1, every code point given is held once, in one row; no row
\* is empty; the rows hold as many code points as Insert was called.
C29_Conservation ==
    (comparator # NoComparator /\ ~panicked) =>
        /\ \A k \in 1..Len(inserted) : Cardinality(PlacesOf(inserted[k])) = 1
        /\ \A i \in 1..Len(values) : Len(values[i]) > 0
        /\ RuneCount(values, 1, Len(values)) = Len(inserted)

\* The comparator in use is not consistent: it ties a with b and b with c, but
\* not a with c.
Inconsistent ==
    \E a, b, c \in Range(inserted) :
        /\ a > b /\ b > c
        /\ Compare(comparator, a, b) = 0
        /\ Compare(comparator, b, c) = 0
        /\ Compare(comparator, a, c) # 0

\* C29 witness: five code points inserted under an inconsistent comparator, in
\* three rows or more, one of them with several code points.
C29_Witness ==
    /\ comparator # NoComparator
    /\ Len(inserted) = MaxAnyInserts
    /\ Inconsistent
    /\ Len(values) >= 3
    /\ \E i \in 1..Len(values) : Len(values[i]) > 1

\* The smallest k with 2^k >= n.
RECURSIVE CeilLog2(_)
CeilLog2(n) == IF n <= 1 THEN 0 ELSE 1 + CeilLog2((n + 1) \div 2)

\* C30: an Insert on a catalog with rows, under a comparator that returns -1,
\* 0 or 1, ends; its search starts with all rows between low and high; from one
\* comparator call to the next the interval stays within the one before and
\* high - low falls to half or less; the comparator is called at most once per
\* halving and once more at the end.
C30_InsertTerminates ==
    [][(comparator # NoComparator /\ inserted' # inserted /\ Len(values) > 0) =>
          LET r == inserted'[Len(inserted')]
              calls == InsertSearch(values, comparator, r, 0, Len(values) - 1).calls
          IN  /\ Len(calls) >= 1
              /\ calls[1].low = 0 /\ calls[1].high = Len(values) - 1
              /\ \A k \in 1..Len(calls) :
                     /\ calls[k].low <= calls[k].row /\ calls[k].row <= calls[k].high
                     /\ k < Len(calls) => calls[k].high - calls[k].low > 0
              /\ \A k \in 1..(Len(calls) - 1) :
                     /\ calls[k].low <= calls[k + 1].low
                     /\ calls[k + 1].high <= calls[k].high
                     /\ calls[k + 1].high - calls[k + 1].low < calls[k].high - calls[k].low
                     /\ calls[k + 1].high - calls[k + 1].low
                            <= (calls[k].high - calls[k].low) \div 2
              /\ Len(calls) <= CeilLog2(Len(values)) + 1
              /\ Len(values') \in {Len(values), Len(values) + 1}]_vars

\* C30 witness: the fifth Insert, under an inconsistent comparator, has searched
\* four rows.
C30_Witness ==
    /\ comparator # NoComparator
    /\ Len(inserted) = MaxAnyInserts
    /\ Inconsistent
    /\ Len(values) >= 4
    /\ \A i \in 1..Len(values) :
           Cardinality(Range(values[i]) \ {inserted[Len(inserted)]}) <= 1

\* C14 as claimed: every Insert call made on a RuneComparator whose comparator
\* was never set panics, on the empty catalog too, and adds no code point.
C14_InsertNeedsComparator ==
    (comparator = NoComparator /\ Len(inserted) > 0) => (panicked /\ values = <<>>)

\* The runes a sequence of ranges holds.
Covered(ranges) == UNION {ranges[i].Lower..ranges[i].Upper : i \in 1..Len(ranges)}

\* C4: for every code point inserted into the catalog, the generated lookup
\* returns the index of the row that holds it.
C4_CompressedLookup ==
    goFile.written =>
        \A weight \in 1..Len(values) : \A r \in Range(values[weight]) :
            RuneWeight(goFile, r) = weight - 1

\* C4 witness: a file with a dynamic range of a negative offset, with an entry
\* of the map and with an inline static range.
C4_Witness ==
    /\ goFile.written
    /\ \E i \in 1..Len(goFile.dynamic) : goFile.dynamic[i].Offset < 0
    /\ \E i \in 1..Len(goFile.static) : InMap(goFile.static[i])
    /\ \E i \in 1..Len(goFile.static) : ~InMap(goFile.static[i])

\* C5: the static ranges and the dynamic ranges hold disjoint sets of code
\* points, and together exactly the code points that were inserted.
C5_Coverage ==
    goFile.written =>
        /\ Covered(goFile.static) \cap Covered(goFile.dynamic) = {}
        /\ Covered(goFile.static) \cup Covered(goFile.dynamic) = Range(inserted)

\* C5 witness: a file with two dynamic ranges and static ranges left, of a
\* character set with an invalid rune.
C5_Witness ==
    /\ goFile.written
    /\ Len(goFile.dynamic) = 2
    /\ Len(goFile.static) > 0
    /\ Range(inserted) # 0..(Len(inserted) - 1)

\* Two neighbours of the list of static ranges that belong to one run: single
\* code points that follow each other, with one offset from code point to weight.
Linked(ranges, i) ==
    /\ Count(ranges[i]) = 1
    /\ Count(ranges[i + 1]) = 1
    /\ ranges[i + 1].Lower = ranges[i].Upper + 1
    /\ ranges[i + 1].Weight - ranges[i + 1].Lower = ranges[i].Weight - ranges[i].Lower

\* The maximal runs of a list of static ranges, as pairs <<first, last>>.
MaximalRuns(ranges) ==
    LET n == Len(ranges)
        firsts == {a \in 1..n : Count(ranges[a]) = 1 /\ (a = 1 \/ ~Linked(ranges, a - 1))}
        lasts == {b \in 1..n : Count(ranges[b]) = 1 /\ (b = n \/ ~Linked(ranges, b))}
    IN  {run \in firsts \X lasts :
            run[1] <= run[2] /\ \A c \in run[1]..(run[2] - 1) : c \notin lasts}

\* C24 as claimed: of the static ranges of the first pass, every maximal run of
\* 100 single code points or more is written as one dynamic range from the
\* first to the last code point of the run, none of its members staying a
\* static range; every shorter maximal run stays in the static ranges whole.
C24_DynamicPromotion ==
    goFile.written =>
        \A run \in MaximalRuns(goFile.passOne) :
            LET first == goFile.passOne[run[1]]
                last == goFile.passOne[run[2]]
                members == {goFile.passOne[i] : i \in run[1]..run[2]}
                promoted == {i \in 1..Len(goFile.dynamic) :
                                goFile.dynamic[i].Lower <= last.Upper
                                    /\ first.Lower <= goFile.dynamic[i].Upper}
            IN  IF (run[2] - run[1]) + 1 >= DynamicCutoff
                THEN /\ Cardinality(promoted) = 1
                     /\ \A i \in promoted :
                            goFile.dynamic[i] = [Offset |-> first.Weight - first.Lower,
                                                 Lower |-> first.Lower, Upper |-> last.Upper]
                     /\ members \cap Range(goFile.static) = {}
                ELSE /\ promoted = {}
                     /\ members \subseteq Range(goFile.static)

\* C25: for a catalog filled in ascending code-point order, every static range
\* of the first pass holds code points of the row numbered by its Weight only,
\* and no two static ranges of one Weight lie against each other.
C25_StaticMaximal ==
    goFile.written =>
        /\ \A i \in 1..Len(goFile.passOne) :
               LET static == goFile.passOne[i]
               IN  /\ static.Weight \in 0..(Len(values) - 1)
                   /\ static.Lower <= static.Upper
                   /\ (static.Lower..static.Upper) \subseteq Range(values[static.Weight + 1])
        /\ \A i \in 1..Len(goFile.passOne) : \A j \in 1..Len(goFile.passOne) :
               ~(/\ goFile.passOne[i].Weight = goFile.passOne[j].Weight
                 /\ goFile.passOne[i].Lower = goFile.passOne[j].Upper + 1)

\* C25 witness: a row in two static ranges with a gap between them, beside
\* static ranges of other rows.
C25_Witness ==
    /\ goFile.written
    /\ \E i \in 1..Len(goFile.passOne) : \E j \in 1..Len(goFile.passOne) :
           /\ goFile.passOne[i].Weight = goFile.passOne[j].Weight
           /\ goFile.passOne[j].Lower = goFile.passOne[i].Upper + 2
           /\ Count(goFile.passOne[i]) > 1
    /\ Len(values) > 2

(***************************************************************************)
(* Claims about AddChild                                                   *)
(***************************************************************************)
SmallestOf(bytes) == CHOOSE b \in bytes : \A c \in bytes : b <= c
LargestOf(bytes) == CHOOSE b \in bytes : \A c \in bytes : b >= c

\* C26: AddChild(v) on a node that has a child for v returns that child and
\* leaves every node as it was, no node being created; on a node without one it
\* creates the child, empty, and returns it; after the call the min and max of
\* every node that has children are its smallest and its largest child byte.
C26_AddChild ==
    [][(trieCall' # trieCall /\ trieCall'.op = "AddChild") =>
          LET p == trieCall'.path
              val == trieCall'.arg
              child == trieCall'.ret
          IN  /\ child = ChildPath(p, val)
              /\ IF val \in tree[p].nodes
                 THEN /\ DOMAIN tree' = DOMAIN tree
                      /\ \A q \in DOMAIN tree :
                             /\ tree'[q].data = tree[q].data
                             /\ tree'[q].nodes = tree[q].nodes
                 ELSE /\ child \notin DOMAIN tree
                      /\ DOMAIN tree' = DOMAIN tree \cup {child}
                      /\ tree'[child].data = Nil
                      /\ tree'[child].nodes = {}
                      /\ tree'[p].nodes = tree[p].nodes \cup {val}
                      /\ tree'[p].data = tree[p].data
                      /\ \A q \in DOMAIN tree : q # p => tree'[q] = tree[q]
              /\ \A q \in DOMAIN tree' :
                     tree'[q].nodes # {} =>
                         /\ tree'[q].min = SmallestOf(tree'[q].nodes)
                         /\ tree'[q].max = LargestOf(tree'[q].nodes)]_vars

\* C26 witness: AddChild has returned the existing child of a node that has
\* two children.
C26_Witness ==
    /\ trieCall.op = "AddChild"
    /\ trieCall.arg \in trieCall.before.nodes
    /\ Cardinality(tree[trieCall.path].nodes) = 2
    /\ tree[trieCall.path].min < tree[trieCall.path].max

(***************************************************************************)
(* Claims about the comparator of TestExtractCollation                     *)
(***************************************************************************)
\* C27: a call of the comparator changes runeToWeight only when the server was
\* asked and answered 0 while one operand alone had a weight, and then gives
\* that weight to the other operand and changes nothing else; no call changes
\* or removes a weight; with a weight for both operands the server is not
\* asked and the weights decide.
C27_MemoTable ==
    comparator # NoComparator =>
        \A k \in 1..Len(comparator.calls) :
            LET call == comparator.calls[k]
                known == {call.l, call.r} \cap DOMAIN call.before
            IN  /\ \A c \in DOMAIN call.before :
                       c \in DOMAIN call.after /\ call.after[c] = call.before[c]
                /\ call.after # call.before =>
                       /\ call.queried
                       /\ call.sqlOutput = 0
                       /\ call.comp = 0
                       /\ Cardinality({call.l, call.r}) = 2
                       /\ Cardinality(known) = 1
                       /\ DOMAIN call.after = DOMAIN call.before \cup {call.l, call.r}
                       /\ call.after[call.l] = call.after[call.r]
                /\ known = {call.l, call.r} =>
                       /\ ~call.queried
                       /\ call.comp = ThreeWay(call.before[call.l], call.before[call.r])

\* C27 witness: the comparator has been called with a weight for both runes,
\* with a weight for one of two tied runes, which it gave to the other, and
\* with a weight for one of two runes that are not tied.
C27_Witness ==
    /\ comparator # NoComparator
    /\ \E k \in 1..Len(comparator.calls) : ~comparator.calls[k].queried
    /\ \E k \in 1..Len(comparator.calls) : comparator.calls[k].after # comparator.calls[k].before
    /\ \E k \in 1..Len(comparator.calls) :
           /\ comparator.calls[k].queried
           /\ comparator.calls[k].sqlOutput # 0
           /\ Cardinality({comparator.calls[k].l, comparator.calls[k].r}
                              \cap DOMAIN comparator.calls[k].before) = 1

(***************************************************************************)
(* Claims about UTF8Iter                                                   *)
(***************************************************************************)
\* The valid code points: 0..0x10FFFF without the surrogate block.
ValidRune(c) == /\ 0 <= c
                /\ c <= MaxRune
                /\ ~(utf8SurrogateMin <= c /\ c <= utf8SurrogateMax)

\* The valid code point that follows p (-1 stands for "nothing yielded yet").
NextValidRune(p) == IF p + 1 = utf8SurrogateMin THEN utf8SurrogateMax + 1 ELSE p + 1

\* C6: a new iterator with no limit set yields the valid code points 0..0x10FFFF
\* (surrogates excluded) in strictly ascending order without a gap or a repeat:
\* the first value is 0, each value is the valid code point right after the
\* previous one (0xE000 right after 0xD7FF), found=false comes only after 0x10FFFF
\* has been yielded, and once found=false was returned no later Next yields a value.
C6_IterSequence ==
    iterRes.called =>
        IF iterRes.found
        THEN /\ ~iterEnded
             /\ ValidRune(iterRes.r)
             /\ iterRes.r = NextValidRune(iterPrev)
        ELSE iterPrev = MaxRune

\* C6 witness: the iterator has just stepped over the surrogate block.
C6_Witness ==
    /\ iterRes.found
    /\ iterPrev = utf8SurrogateMin - 1
    /\ iterRes.r = utf8SurrogateMax + 1

\* The k-th valid code point, counted from 1.
NthValidRune(k) ==
    IF k - 1 < utf8SurrogateMin THEN k - 1
    ELSE (k - 1) + ((utf8SurrogateMax - utf8SurrogateMin) + 1)

\* C16: after SetIteratorLimit(n) on a new iterator, the k-th Next call yields
\* the k-th valid code point for k up to min(n, N), N the number of valid code
\* points, and every later call returns found=false; with n <= 0 the first call
\* already does.
C16_IterLimit ==
    (iter.limit \in IterLimits /\ iterRes.called) =>
        IF iterRes.found
        THEN /\ ~iterEnded
             /\ iter.count <= Min(iter.limit, NumValidRunes)
             /\ iterRes.r = NthValidRune(iter.count)
        ELSE iter.count = Max(0, Min(iter.limit, NumValidRunes))

\* C16 witness: the limit has ended the sequence right after the surrogate
\* block was stepped over.
C16_Witness ==
    /\ iter.limit = utf8SurrogateMin + 1
    /\ iterRes.called /\ ~iterRes.found
    /\ iterPrev = utf8SurrogateMax + 1

\* C15 as claimed: after Reset, whatever Next and SetIteratorLimit calls came
\* before it, every Next call returns what the same call returns on a newly
\* constructed iterator.
C15_ResetIsNew ==
    (fresh.since /\ fresh.res.called) => iterRes = fresh.res

(***************************************************************************)
(* Claims about CharacterSetEncodingTree and its iterator                  *)
(***************************************************************************)
ProperPrefix(a, b) == Len(a) < Len(b) /\ SubSeq(b, 1, Len(a)) = a

\* The order of the enumeration: shorter paths first, then by byte value.
PathLess(a, b) ==
    \/ Len(a) < Len(b)
    \/ /\ Len(a) = Len(b)
       /\ \E i \in 1..Len(a) : a[i] < b[i] /\ \A j \in 1..(i - 1) : a[j] = b[j]

RECURSIVE SortPairs(_)
SortPairs(S) ==
    IF S = {} THEN <<>>
    ELSE LET m == CHOOSE x \in S : \A y \in S : x[1] = y[1] \/ PathLess(x[1], y[1])
         IN  <<m>> \o SortPairs(S \ {m})

\* Every (path, data) for which SetData returned true.
SetOkPairs == {x \in (DOMAIN setOk) \X TrieData : x[2] \in Range(setOk[x[1]])}

\* The nodes that hold data now, have no subtree, and lie 1..4 bytes deep.
DataLeaves == {q \in DOMAIN tree : /\ Len(q) >= 1
                                   /\ Len(q) <= MaxEncodingLen
                                   /\ tree[q].data # Nil
                                   /\ tree[q].nodes = {}}

DataLeafPairs == {<<q, tree[q].data>> : q \in DataLeaves}

IsPrefixOf(a, b) == Len(a) <= Len(b) /\ SubSeq(b, 1, Len(a)) = a

\* C7 as claimed: once Next has returned ok=false, the pairs it returned are
\* all the (path, data) for which SetData returned true, each once, by path
\* length and then by byte value.
C7_AllSetDataEnumerated ==
    cseiRes.ended => cseiOut = SortPairs(SetOkPairs)

\* C7 as amended: the iterator returns exactly the nodes that hold data, have
\* no subtree and lie 1 to 4 bytes below the root, each once with its data, by
\* path length and then by byte value, and ok=false from then on.  (The root, a
\* node deeper than 4 bytes and a node that got a subtree after its data was set
\* are not returned, though SetData returned true for them.)
C7_LeavesEnumerated ==
    /\ IsPrefixOf(cseiOut, SortPairs(DataLeafPairs))
    /\ cseiRes.ended => cseiOut = SortPairs(DataLeafPairs)

\* C7 witness: the enumeration has ended after returning a shorter and then a
\* longer path with different data, in a tree with a gap between two keys.
C7_Witness ==
    /\ cseiRes.ended
    /\ Len(cseiOut) >= 2
    /\ Len(cseiOut[1][1]) < Len(cseiOut[2][1])
    /\ cseiOut[1][2] # cseiOut[2][2]
    /\ tree[<<>>].nodes = TrieBytes

\* C8 as claimed, in the half the claim spells out: no node has both a payload
\* and children.  (The other half, a childless node has a payload, fails for
\* every node AddChild has just created.)
C8_NoPayloadWithChildren ==
    \A q \in DOMAIN tree : ~(tree[q].data # Nil /\ tree[q].nodes # {})

\* C9 as claimed: of two byte sequences s and t entered into the trie, s equal
\* to t or a proper prefix of t, at least one SetData returned false.
C9_ConflictDetected ==
    \A s0 \in DOMAIN setOk : \A t0 \in DOMAIN setOk :
        (Len(s0) >= 1 /\ Len(setOk[s0]) >= 1 /\ Len(setOk[t0]) >= 1)
            => /\ ~ProperPrefix(s0, t0)
               /\ Len(setOk[s0]) = 1

\* C10: SetData returns true and stores the given bytes exactly when the node
\* had no children and no payload; otherwise it returns false and leaves the
\* node as it was.
C10_SetData ==
    trieCall.op = "SetData" =>
        LET b == trieCall.before
            a == tree[trieCall.path]
        IN  IF b.nodes = {} /\ b.data = Nil
            THEN /\ trieCall.ret = TRUE
                 /\ a = [b EXCEPT !.data = trieCall.arg]
            ELSE /\ trieCall.ret = FALSE
                 /\ a = b

\* C10 witness: SetData has refused a node without payload because of its children.
C10_Witness ==
    /\ trieCall.op = "SetData"
    /\ trieCall.ret = FALSE
    /\ trieCall.before.data = Nil
    /\ trieCall.before.nodes # {}

====
